---- MODULE Spec2Model ----
(***************************************************************************)
(* A model of the DPoS consensus engine of go-ethereum/consensus/dpos      *)
(* (dpos.go): the finality tracker updateConfirmedBlockHeader, the header  *)
(* validator verifyHeader with its batch form VerifyHeaders, and the seal  *)
(* verifier verifySeal.                                                    *)
(*                                                                         *)
(* A header's hash is its index in the header store `headers`; Nil (0) is  *)
(* the nil pointer, the zero hash and the absent database key.             *)
(***************************************************************************)
EXTENDS Integers, Sequences, FiniteSets, TLC

VARIABLES
    headers,     \* the chain reader's header store: hash -> header
    tip,         \* chain.CurrentHeader(), a hash
    missing,     \* hashes the chain reader no longer resolves (GetHeaderByHash = nil)
    confirmedBlockHeader,  \* d.confirmedBlockHeader: a hash, or Nil when unset
    persisted,   \* the database value under include.ConfirmedBlockHead, or Nil
    last,        \* the most recent call and what it returned
    walks,       \* per thread inside updateConfirmedBlockHeader: its place and locals
    batch,       \* the VerifyHeaders call: its headers, its goroutine, its channels
    signatures,  \* d.signatures: the cache of recovered signers, by header hash
    signer,      \* d.signer: the address blocks are signed for
    signFn,      \* d.signFn: the signing function
    auth,        \* the Authorize call under way, which holds d.mu
    work,        \* the header the producer is building
    seal,        \* the Seal call: its place, its locals and what it did
    blockCntTrie \* dposContext.BlockCntTrie(): epoch and validator -> count

chainVars == <<headers, tip, missing>>
engineVars == <<confirmedBlockHeader, persisted>>
producerVars == <<signer, signFn, auth, work, seal, blockCntTrie>>
vars == <<headers, tip, missing, confirmedBlockHeader, persisted, last, walks,
          batch, signatures, signer, signFn, auth, work, seal, blockCntTrie>>

\* ---------------------------------------------------------------- constants

Nil == 0

\* include.ConsensusSize, include.EpochInterval and include.ProducerInterval are
\* set in package include; the values are those of the specification's scenario.
ConsensusSize == 3
EpochInterval == 86400
ProducerInterval == 10

Validators == {"A", "B", "C"}

\* The threads that run seal verification on the one engine.
Threads == {"t1", "t2"}

\* Bounds of the model.
MaxHeaders == 5      \* headers added on top of genesis
MaxMissing == 1      \* headers the store may lose
MaxForkHeaders == 7  \* headers added on top of genesis where the chain forks
MaxForks == 1        \* competing branches
MaxConcHeaders == 4  \* headers added on top of genesis while two threads walk
MaxBatch == 3        \* headers of one VerifyHeaders call
MaxSealHeaders == 3  \* headers added on top of genesis while seals are verified
MaxSignatures == 1   \* entries the signature cache holds before it evicts one
MaxMintHeaders == 4  \* blocks finalized on top of genesis
MaxTrieKeys == 2     \* keys of the mint-count trie the first block is built on
MaxCount == 2        \* the highest count under such a key
GenesisTimes == {60, 86360, 86370}

\* ------------------------------------------------------------- chain reader

Genesis == 1

Number(h) == headers[h].number
Time(h) == headers[h].time
Validator(h) == headers[h].validator
ParentHash(h) == headers[h].parentHash

\* chain.GetHeaderByHash: nil when the store cannot resolve the hash.
GetHeaderByHash(hash) ==
    IF hash \in DOMAIN headers /\ hash \notin missing THEN hash ELSE Nil

\* chain.GetHeaderByNumber(0): the genesis header, when the store resolves it.
GetGenesisHeader == GetHeaderByHash(Genesis)

\* The headers on the parent-link path from h down to genesis, h included.
RECURSIVE ChainOf(_)
ChainOf(h) ==
    IF h = Nil THEN {} ELSE {h} \cup ChainOf(ParentHash(h))

\* The headers that share their parent with an earlier header: the forks.
ForkCount ==
    Cardinality({h \in DOMAIN headers :
                    \E g \in DOMAIN headers : g < h /\ ParentHash(g) = ParentHash(h)})

IsAncestorOrEqual(a, h) == a \in ChainOf(h)

\* --------------------------------------------------------- header validator

\* include.ExtraVanity and include.ExtraSeal (lines 121 and 126 give the values).
ExtraVanity == 32
ExtraSeal == 65

\* A math/big integer: its sign and its magnitude as 64-bit words, the least
\* significant first. A word is named by its value.
BigInt(neg, abs) == [neg |-> neg, abs |-> abs]
BigOne == BigInt(FALSE, <<1>>)

\* big.Int.Uint64: the lowest word of the magnitude, the sign dropped.
Uint64(x) == IF x.abs = <<>> THEN 0 ELSE x.abs[1]

\* header.Number == nil.
NilNumber == -1

\* The nil *types.Header, as a header record.
NilHeader == [hash |-> Nil, number |-> NilNumber, time |-> 0]

\* chain.GetHeader(hash, number): the stored header of that hash and number.
GetHeader(hash, number) ==
    IF GetHeaderByHash(hash) # Nil /\ Number(hash) = number
    THEN [hash |-> hash, number |-> Number(hash), time |-> Time(hash)]
    ELSE NilHeader

\* Lines 153-158: the parent a header is checked against.
parentOf(header, parents) ==
    IF Len(parents) > 0
    THEN parents[Len(parents)]
    ELSE GetHeader(header.parentHash, header.number - 1)

\* verifyHeader, lines 108-166: the error it returns, "nil" for none, "panic"
\* when line 159 calls Uint64 on the nil Number of a parent taken from parents.
verifyHeader(header, parents, now) ==
    IF header.number = NilNumber THEN "errUnknownBlock"
    ELSE IF header.time > now THEN "ErrFutureBlock"
    ELSE IF header.extraLen < ExtraVanity THEN "errMissingVanity"
    ELSE IF header.extraLen < ExtraVanity + ExtraSeal THEN "errMissingSignature"
    ELSE IF header.mixDigest # Nil THEN "errInvalidMixDigest"
    ELSE IF Uint64(header.difficulty) # 1 THEN "errInvalidDifficulty"
    ELSE IF header.uncleHash # "empty" THEN "errInvalidUncleHash"
    ELSE IF header.forkErr # "nil" THEN header.forkErr
    ELSE LET parent == parentOf(header, parents) IN
         IF parent.hash = Nil THEN "ErrUnknownAncestor"
         ELSE IF parent.number = NilNumber THEN "panic"
         ELSE IF parent.number # header.number - 1 \/ parent.hash # header.parentHash
              THEN "ErrUnknownAncestor"
         ELSE IF parent.time + ProducerInterval > header.time
              THEN "ErrInvalidTimestamp"
         ELSE "nil"

\* Line 175: the parents handed to verifyHeader for headers[i] (i from 1).
batchParents(hs, i) == SubSeq(hs, 1, i - 1)

\* The headers a caller may hand in. A well-formed header on top of parent p, a
\* header record with a hash, a number and a time:
ChildOf(p, hash) ==
    [hash |-> hash, parentHash |-> p.hash, number |-> p.number + 1,
     time |-> p.time + ProducerInterval, extraLen |-> ExtraVanity + ExtraSeal,
     mixDigest |-> Nil, difficulty |-> BigOne, uncleHash |-> "empty",
     forkErr |-> "nil"]

\* The difficulties other than 1: 0, 2, -1 and 2^64 + 1.
BadDifficulties ==
    {BigInt(FALSE, <<>>), BigInt(FALSE, <<2>>), BigInt(TRUE, <<1>>),
     BigInt(FALSE, <<1, 1>>)}

\* A header is well formed or departs from it in one field.
Defects ==
    [kind : {"none", "nilNumber", "future", "noVanity", "noSeal", "mixDigest",
             "uncles", "fork", "parentHash", "number", "time", "offSlot"},
     difficulty : {BigOne}]
        \cup [kind : {"difficulty"}, difficulty : BadDifficulties]

\* The wall clock read by verifyHeader.
Now == Time(tip) + MaxBatch * ProducerInterval

WithDefect(h, d) ==
    CASE d.kind = "none" -> h
      [] d.kind = "nilNumber" -> [h EXCEPT !.number = NilNumber]
      [] d.kind = "future" -> [h EXCEPT !.time = Now + ProducerInterval]
      [] d.kind = "noVanity" -> [h EXCEPT !.extraLen = ExtraVanity - 1]
      [] d.kind = "noSeal" -> [h EXCEPT !.extraLen = ExtraVanity + ExtraSeal - 1]
      [] d.kind = "mixDigest" -> [h EXCEPT !.mixDigest = 1]
      [] d.kind = "uncles" -> [h EXCEPT !.uncleHash = "uncles"]
      [] d.kind = "fork" -> [h EXCEPT !.forkErr = "ErrBadForkHash"]
      [] d.kind = "parentHash" -> [h EXCEPT !.parentHash = Nil]
      [] d.kind = "number" -> [h EXCEPT !.number = @ + 1]
      [] d.kind = "time" -> [h EXCEPT !.time = @ - ProducerInterval]
      [] d.kind = "offSlot" -> [h EXCEPT !.time = @ + 1]
      [] d.kind = "difficulty" -> [h EXCEPT !.difficulty = d.difficulty]

\* The i-th header of a chain segment on top of the tip, well formed.
RECURSIVE SegmentHeader(_)
SegmentHeader(i) ==
    IF i = 0
    THEN [hash |-> tip, number |-> Number(tip), time |-> Time(tip)]
    ELSE ChildOf(SegmentHeader(i - 1), Len(headers) + i)

\* The segment with the defects ds, one per header.
Segment(ds) == [i \in 1..Len(ds) |-> WithDefect(SegmentHeader(i), ds[i])]

DefectLists == UNION {[1..n -> Defects] : n \in 1..MaxBatch}

\* ------------------------------------------------------------ seal verifier

\* header.Hash() covers every field of the header, the seal in Extra included:
\* the header's content stands for its hash. header.seal is the address that
\* crypto.Ecrecover yields from the seal, "invalid" when it yields an error.
HeaderHash(header) == header

\* sigcache.Add: a full cache evicts one of its entries.
cacheAdd(cache, hash, address) ==
    LET entry == [hash |-> hash, signer |-> address] IN
    IF Cardinality(cache) < MaxSignatures
    THEN {cache \cup {entry}}
    ELSE {(cache \ {e}) \cup {entry} : e \in cache}

\* ecrecover, lines 555-580: the results it may give, each [signer, err, cache].
ecrecover(header, cache) ==
    IF \E e \in cache : e.hash = HeaderHash(header)
    THEN {[signer |-> e.signer, err |-> "nil", cache |-> cache] :
             e \in {c \in cache : c.hash = HeaderHash(header)}}
    ELSE IF header.extraLen < ExtraSeal
         THEN {[signer |-> "", err |-> "errMissingSignature", cache |-> cache]}
    ELSE IF header.seal = "invalid"
         THEN {[signer |-> "", err |-> "ErrInvalidSignature", cache |-> cache]}
    ELSE {[signer |-> header.seal, err |-> "nil", cache |-> c] :
             c \in cacheAdd(cache, HeaderHash(header), header.seal)}

\* verifyBlockSigner without the comparison with the declared validator.
verifyBlockSignerNoValidator(producer, header, recovered) ==
    IF recovered.err # "nil" THEN recovered.err
    ELSE IF recovered.signer # producer THEN "ErrInvalidBlockProducer"
    ELSE "nil"

\* verifyBlockSigner, lines 235-253, on what ecrecover gave.
verifyBlockSigner(producer, header, recovered) ==
    IF recovered.err # "nil" THEN recovered.err
    ELSE IF recovered.signer # producer THEN "ErrInvalidBlockProducer"
    ELSE IF recovered.signer # header.validator THEN "ErrMismatchSignerAndValidator"
    ELSE "nil"

\* Lines 202-225 of verifySeal: the error met before the signer is verified,
\* "nil" for none. schedule is what the parent's DposContext gives for the
\* header's time: the producer, or the error of NewDposContextFromProto or of
\* GetProducer. A nil parent is dereferenced at line 216.
sealPrecheck(header, schedule) ==
    IF header.number = 0 THEN "errUnknownBlock"
    ELSE IF GetHeader(header.parentHash, header.number - 1).hash = Nil THEN "panic"
    ELSE IF schedule \in {"ErrContext", "ErrProducer"} THEN schedule
    ELSE "nil"

\* ---------------------------------------------------------- finality tracker

Epoch(t) == t \div EpochInterval

\* loadConfirmedBlockHeader: [header, err].
loadConfirmedBlockHeader(db) ==
    IF db = Nil
    THEN [header |-> Nil, err |-> "ErrNotFound"]
    ELSE IF GetHeaderByHash(db) = Nil
         THEN [header |-> Nil, err |-> "ErrNilBlockHeader"]
         ELSE [header |-> GetHeaderByHash(db), err |-> "nil"]

\* lazyInit with the test of line 259 dropped: every call loads anew.
lazyInitReload(confirmed, db) ==
    LET l == loadConfirmedBlockHeader(db) IN
    IF l.err = "nil"
    THEN l
    ELSE IF GetGenesisHeader = Nil
         THEN [header |-> Nil, err |-> l.err]
         ELSE [header |-> GetGenesisHeader, err |-> "nil"]

\* lazyInit that takes the genesis header without loading.
lazyInitGenesisOnly(confirmed, db) ==
    IF confirmed # Nil
    THEN [header |-> confirmed, err |-> "nil"]
    ELSE IF GetGenesisHeader = Nil
         THEN [header |-> Nil, err |-> loadConfirmedBlockHeader(db).err]
         ELSE [header |-> GetGenesisHeader, err |-> "nil"]

\* Lines 259-268: the confirmed header the walk starts from, [header, err];
\* header = Nil when the call returns err before the walk.
lazyInit(confirmed, db) ==
    IF confirmed # Nil
    THEN [header |-> confirmed, err |-> "nil"]
    ELSE LET l == loadConfirmedBlockHeader(db) IN
         IF l.err = "nil"
         THEN l
         ELSE IF GetGenesisHeader = Nil
              THEN [header |-> Nil, err |-> l.err]
              ELSE [header |-> GetGenesisHeader, err |-> "nil"]

\* Line 274: the loop condition.
loopCondition(confirmed, curHeader) ==
    confirmed # curHeader /\ Number(confirmed) < Number(curHeader)

\* epochStep that adopts the epoch and keeps the witness set.
epochStepNoReset(w) ==
    [w EXCEPT !.epoch = Epoch(Time(w.curHeader))]

\* Lines 277-283: a visited header of another epoch resets the witness set.
epochStep(w) ==
    IF Epoch(Time(w.curHeader)) # w.epoch
    THEN [w EXCEPT !.epoch = Epoch(Time(w.curHeader)), !.validatorMap = {}]
    ELSE w

\* fastReturn that does not count the validators seen.
fastReturnIgnoresWitnesses(confirmed, w) ==
    Number(w.curHeader) - Number(confirmed) < ConsensusSize

\* fastReturn off by one: <= for <.
fastReturnOffByOne(confirmed, w) ==
    Number(w.curHeader) - Number(confirmed)
        <= ConsensusSize - Cardinality(w.validatorMap)

\* Line 286: the fast return.
fastReturn(confirmed, w) ==
    Number(w.curHeader) - Number(confirmed)
        < ConsensusSize - Cardinality(w.validatorMap)

\* Line 292.
addValidator(w) ==
    [w EXCEPT !.validatorMap = @ \cup {Validator(w.curHeader)}]

\* reachedConsensus that asks for more than ConsensusSize validators.
reachedConsensusStrict(w) == Cardinality(w.validatorMap) > ConsensusSize

\* Line 293.
reachedConsensus(w) == Cardinality(w.validatorMap) >= ConsensusSize

\* Lines 271-273: the walk's local variables at its start.
newWalk(curHeader) ==
    [curHeader |-> curHeader, epoch |-> -1, validatorMap |-> {}]

\* Lines 274-306, run to the end with no other writer of the confirmed header:
\* [confirmed, promoted, err].
RECURSIVE walk(_, _)
walk(confirmed, w) ==
    IF ~loopCondition(confirmed, w.curHeader)
    THEN [confirmed |-> confirmed, promoted |-> FALSE, err |-> "nil"]
    ELSE LET w1 == epochStep(w) IN
         IF fastReturn(confirmed, w1)
         THEN [confirmed |-> confirmed, promoted |-> FALSE, err |-> "nil"]
         ELSE LET w2 == addValidator(w1) IN
              IF reachedConsensus(w2)
              THEN [confirmed |-> w2.curHeader, promoted |-> TRUE, err |-> "nil"]
              ELSE LET parent == GetHeaderByHash(ParentHash(w2.curHeader)) IN
                   IF parent = Nil
                   THEN [confirmed |-> confirmed, promoted |-> FALSE,
                         err |-> "ErrNilBlockHeader"]
                   ELSE walk(confirmed, [w2 EXCEPT !.curHeader = parent])

\* storeConfirmedBlockHeader: db.Put, which may fail: [db, err].
storeConfirmedBlockHeader(confirmed, db, putOk) ==
    IF putOk THEN [db |-> confirmed, err |-> "nil"]
    ELSE [db |-> db, err |-> "ErrPut"]

\* updateConfirmedBlockHeader with the store moved out of the promotion branch:
\* every call that ends its walk without an error persists the confirmed header.
updateConfirmedAlwaysStore(confirmed, db, putOk) ==
    LET i == lazyInit(confirmed, db) IN
    IF i.header = Nil
    THEN [confirmed |-> confirmed, db |-> db, err |-> i.err, from |-> Nil]
    ELSE LET r == walk(i.header, newWalk(tip)) IN
         IF r.err = "nil"
         THEN LET s == storeConfirmedBlockHeader(r.confirmed, db, putOk) IN
              [confirmed |-> r.confirmed, db |-> s.db, err |-> s.err,
               from |-> i.header]
         ELSE [confirmed |-> r.confirmed, db |-> db, err |-> r.err,
               from |-> i.header]

\* updateConfirmedBlockHeader as a whole: [confirmed, db, err, from], from being
\* the confirmed header after lines 259-268.
updateConfirmedBlockHeader(confirmed, db, putOk) ==
    LET i == lazyInit(confirmed, db) IN
    IF i.header = Nil
    THEN [confirmed |-> confirmed, db |-> db, err |-> i.err, from |-> Nil]
    ELSE LET r == walk(i.header, newWalk(tip)) IN
         IF r.promoted
         THEN LET s == storeConfirmedBlockHeader(r.confirmed, db, putOk) IN
              [confirmed |-> r.confirmed, db |-> s.db, err |-> s.err,
               from |-> i.header]
         ELSE [confirmed |-> r.confirmed, db |-> db, err |-> r.err,
               from |-> i.header]

\* ------------------------------------------------------------------ actions

\* last: op is "track" right after a call of updateConfirmedBlockHeader, err what
\* it returned, before the confirmed header when it was called, from the
\* confirmed header its walk started from, and prev what the call directly before
\* it (same tip, same store) did: "none" when there was none.
\* A thread outside updateConfirmedBlockHeader.
Idle == [pc |-> "idle", curHeader |-> Nil, epoch |-> -1, validatorMap |-> {}]

\* No VerifyHeaders call is under way.
NoBatch ==
    [pc |-> "none", headers |-> <<>>, i |-> 0, err |-> "nil", results |-> <<>>,
     abort |-> FALSE, sentAtAbort |-> 0, lateStart |-> {}]

NoCall ==
    [op |-> "none", err |-> "nil", before |-> Nil, from |-> Nil, prev |-> "none"]

\* No Authorize call is under way.
NoAuthorize == [pc |-> "idle", signer |-> "zero", signFn |-> "nil"]

\* The producer is building no header.
NoWork ==
    [prepared |-> FALSE, number |-> 0, extraLen |-> 0, validator |-> "zero",
     err |-> "nil"]

\* No Seal call is under way.
NoSeal ==
    [pc |-> "idle", number |-> 0, extraLen |-> 0, delay |-> 0, stop |-> FALSE,
     stopAt |-> "never", fn |-> "nil", account |-> "zero", calls |-> 0, signed |-> FALSE,
     block |-> "nil", err |-> "nil"]

\* A mint-count trie without keys.
EmptyTrie == [k \in {} |-> 0]

\* The engine New builds, on a chain that holds its genesis header.
InitEngine ==
    /\ \E t \in GenesisTimes :
         headers = <<[number |-> 0, parentHash |-> Nil, time |-> t,
                      validator |-> "A"]>>
    /\ tip = Genesis
    /\ missing = {}
    /\ confirmedBlockHeader = Nil
    /\ persisted = Nil
    /\ last = NoCall
    /\ walks = [t \in Threads |-> Idle]
    /\ batch = NoBatch
    /\ signatures = {}
    /\ signer = "zero"
    /\ signFn = "nil"
    /\ auth = NoAuthorize
    /\ work = NoWork
    /\ seal = NoSeal

Init ==
    /\ InitEngine
    /\ blockCntTrie = EmptyTrie

\* The chain grows: a header signed by v is appended to the tip, one producer
\* interval after it, and becomes the tip.
InsertHeader(v, max) ==
    /\ Len(headers) < max + 1
    /\ headers' = Append(headers,
                         [number |-> Number(tip) + 1, parentHash |-> tip,
                          time |-> Time(tip) + ProducerInterval,
                          validator |-> v])
    /\ tip' = Len(headers) + 1
    /\ last' = NoCall
    /\ UNCHANGED <<missing, engineVars, walks, batch, signatures, producerVars>>

\* A competing branch: a header signed by v is stored on top of p, which is not
\* the tip; the chain reader makes it the tip once it is higher than the tip.
ForkHeader(p, v) ==
    /\ Len(headers) < MaxForkHeaders + 1
    /\ p # tip
    /\ \/ p = Len(headers)
       \/ ForkCount < MaxForks /\ tip = Len(headers)
    /\ headers' = Append(headers,
                         [number |-> Number(p) + 1, parentHash |-> p,
                          time |-> Time(p) + ProducerInterval,
                          validator |-> v])
    /\ tip' = IF Number(p) + 1 > Number(tip) THEN Len(headers) + 1 ELSE tip
    /\ last' = NoCall
    /\ UNCHANGED <<missing, engineVars, walks, batch, signatures, producerVars>>

\* The store loses a header: later lookups of its hash return nil.
LoseHeader(h) ==
    /\ Cardinality(missing) < MaxMissing
    /\ h \in DOMAIN headers \ missing
    /\ h # tip
    /\ missing' = missing \cup {h}
    /\ last' = NoCall
    /\ UNCHANGED <<headers, tip, engineVars, walks, batch, signatures, producerVars>>

\* The node restarts: the engine is built anew by New, the database is kept.
Restart ==
    /\ confirmedBlockHeader # Nil
    /\ confirmedBlockHeader' = Nil
    /\ last' = NoCall
    /\ UNCHANGED <<chainVars, persisted, walks, batch, signatures, producerVars>>

\* One call of updateConfirmedBlockHeader on the current tip.
Track(putOk) ==
    LET r == updateConfirmedBlockHeader(confirmedBlockHeader, persisted, putOk) IN
    /\ confirmedBlockHeader' = r.confirmed
    /\ persisted' = r.db
    /\ last' = [op |-> "track", err |-> r.err,
                before |-> confirmedBlockHeader, from |-> r.from,
                prev |-> IF last.op # "track" THEN "none"
                         ELSE IF confirmedBlockHeader # last.from
                              THEN "promoted" ELSE "unchanged"]
    /\ UNCHANGED <<chainVars, walks, batch, signatures, producerVars>>

Next ==
    \/ \E v \in Validators : InsertHeader(v, MaxHeaders)
    \/ \E h \in DOMAIN headers : LoseHeader(h)
    \/ Restart
    \/ \E putOk \in BOOLEAN : Track(putOk)

Spec == Init /\ [][Next]_vars

\* The chain reader also stores a competing branch and switches to it.
InitFork ==
    /\ Init
    /\ Time(Genesis) = 60

NextFork ==
    \/ \E v \in Validators : InsertHeader(v, MaxForkHeaders) /\ tip = Len(headers)
    \/ \E p \in DOMAIN headers, v \in Validators : ForkHeader(p, v)
    \/ Track(TRUE)

SpecFork == InitFork /\ [][NextFork]_vars

\* Two threads inside updateConfirmedBlockHeader, which takes no lock: a step
\* is the code between two accesses of d.confirmedBlockHeader that another
\* thread's write can separate.

\* Thread t returns from the call.
Return(t) == walks' = [walks EXCEPT ![t] = Idle]

\* Lines 256-273: the lazy initialisation, and the read of the tip.
Begin(t) ==
    /\ walks[t].pc = "idle"
    /\ LET i == lazyInit(confirmedBlockHeader, persisted) IN
       IF i.header = Nil
       THEN UNCHANGED <<confirmedBlockHeader, walks>>
       ELSE /\ confirmedBlockHeader' = i.header
            /\ walks' = [walks EXCEPT ![t] = [pc |-> "loop"] @@ newWalk(tip)]
    /\ UNCHANGED <<chainVars, persisted, last, batch, signatures, producerVars>>

\* Line 274: the loop condition, read against the confirmed header of now.
LoopTest(t) ==
    /\ walks[t].pc = "loop"
    /\ IF loopCondition(confirmedBlockHeader, walks[t].curHeader)
       THEN walks' = [walks EXCEPT ![t].pc = "fast"]
       ELSE Return(t)
    /\ UNCHANGED <<chainVars, engineVars, last, batch, signatures, producerVars>>

\* Lines 277-289: the epoch step and the fast return.
FastTest(t) ==
    /\ walks[t].pc = "fast"
    /\ LET w == epochStep(walks[t]) IN
       IF fastReturn(confirmedBlockHeader, w)
       THEN Return(t)
       ELSE walks' = [walks EXCEPT ![t] = [w EXCEPT !.pc = "add"]]
    /\ UNCHANGED <<chainVars, engineVars, last, batch, signatures, producerVars>>

\* Lines 292-304: the witness is recorded; at quorum the confirmed header is
\* written and persisted, else the walk moves to the parent.
AddStep(t) ==
    /\ walks[t].pc = "add"
    /\ LET w == addValidator(walks[t])
           parent == GetHeaderByHash(ParentHash(w.curHeader))
       IN
       IF reachedConsensus(w)
       THEN /\ confirmedBlockHeader' = w.curHeader
            /\ persisted' =
                   storeConfirmedBlockHeader(w.curHeader, persisted, TRUE).db
            /\ Return(t)
       ELSE /\ IF parent = Nil
               THEN Return(t)
               ELSE walks' = [walks EXCEPT
                                 ![t] = [w EXCEPT !.curHeader = parent,
                                                  !.pc = "loop"]]
            /\ UNCHANGED engineVars
    /\ UNCHANGED <<chainVars, last, batch, signatures, producerVars>>

InitConc ==
    /\ Init
    /\ Time(Genesis) = 60

NextConc ==
    \/ \E v \in Validators : InsertHeader(v, MaxConcHeaders)
    \/ \E t \in Threads : Begin(t)
    \/ \E t \in Threads : LoopTest(t)
    \/ \E t \in Threads : FastTest(t)
    \/ \E t \in Threads : AddStep(t)

SpecConc == InitConc /\ [][NextConc]_vars

\* VerifyHeaders, lines 169-184: the caller, and the goroutine it starts.
\* batch.results is what has been sent on the results channel, whose buffer
\* holds one result per header: a send never blocks.
otherVars == <<chainVars, engineVars, last, walks, signatures, producerVars>>

\* Lines 170-183: the channels are made and the goroutine is started, on the
\* headers the caller hands in.
VerifyHeaders ==
    /\ batch.pc = "none"
    /\ \E ds \in DefectLists :
         batch' = [NoBatch EXCEPT !.pc = "verify", !.headers = Segment(ds), !.i = 1]
    /\ UNCHANGED otherVars

\* Line 175: the goroutine validates headers[i]. A panic ends the process.
WorkerVerify ==
    /\ batch.pc = "verify"
    /\ LET err == verifyHeader(batch.headers[batch.i],
                               batchParents(batch.headers, batch.i), Now)
       IN batch' = [batch EXCEPT
                       !.err = err,
                       !.pc = IF err = "panic" THEN "crashed" ELSE "select",
                       !.lateStart = IF batch.abort THEN @ \cup {batch.i} ELSE @]
    /\ UNCHANGED otherVars

\* Lines 176-180, the case results <- err: always ready.
WorkerSend ==
    /\ batch.pc = "select"
    /\ batch' = [batch EXCEPT
                    !.results = Append(@, batch.err),
                    !.i = @ + 1,
                    !.pc = IF batch.i = Len(batch.headers) THEN "done" ELSE "verify"]
    /\ UNCHANGED otherVars

\* Lines 176-180, the case <-abort: ready once abort is closed; select then
\* picks one of the two ready cases.
WorkerAbort ==
    /\ batch.pc = "select"
    /\ batch.abort
    /\ batch' = [batch EXCEPT !.pc = "done"]
    /\ UNCHANGED otherVars

\* The caller closes the abort channel.
Abort ==
    /\ batch.pc \in {"verify", "select", "done"}
    /\ ~batch.abort
    /\ batch' = [batch EXCEPT !.abort = TRUE, !.sentAtAbort = Len(batch.results)]
    /\ UNCHANGED otherVars

InitBatch ==
    /\ Init
    /\ Time(Genesis) = 60

NextBatch ==
    \/ VerifyHeaders
    \/ WorkerVerify
    \/ WorkerSend
    \/ WorkerAbort
    \/ Abort

SpecBatch == InitBatch /\ [][NextBatch]_vars

\* The headers handed to verifySeal: on top of the tip with any declared
\* validator and any seal, or with number 0, an unknown parent or a short extra.
SealHeader(v, s) ==
    [parentHash |-> tip, number |-> Number(tip) + 1,
     time |-> Time(tip) + ProducerInterval, extraLen |-> ExtraVanity + ExtraSeal,
     validator |-> v, seal |-> s]

SealHeaders ==
    {SealHeader(v, s) : v \in Validators, s \in Validators \cup {"invalid"}}
        \cup {[SealHeader("A", "A") EXCEPT !.number = 0],
               [SealHeader("A", "A") EXCEPT !.parentHash = Nil],
               [SealHeader("A", "A") EXCEPT !.extraLen = ExtraSeal - 1]}

Schedules == Validators \cup {"ErrContext", "ErrProducer"}

\* One call of verifySeal, lines 199-232, updateConfirmedBlockHeader included.
SealCall(header, schedule, err, tracked) ==
    [op |-> "verifySeal", err |-> err, header |-> header, schedule |-> schedule,
     tracked |-> tracked, before |-> confirmedBlockHeader, db |-> persisted]

VerifySeal(header, schedule) ==
    LET pre == sealPrecheck(header, schedule) IN
    IF pre # "nil"
    THEN /\ last' = SealCall(header, schedule, pre, FALSE)
         /\ UNCHANGED <<chainVars, engineVars, walks, batch, signatures, producerVars>>
    ELSE \E recovered \in ecrecover(header, signatures) :
           LET err == verifyBlockSigner(schedule, header, recovered) IN
           /\ signatures' = recovered.cache
           /\ IF err # "nil"
              THEN /\ last' = SealCall(header, schedule, err, FALSE)
                   /\ UNCHANGED engineVars
              ELSE \E putOk \in BOOLEAN :
                     LET r == updateConfirmedBlockHeader(confirmedBlockHeader,
                                                         persisted, putOk)
                     IN /\ last' = SealCall(header, schedule, r.err, TRUE)
                        /\ confirmedBlockHeader' = r.confirmed
                        /\ persisted' = r.db
           /\ UNCHANGED <<chainVars, walks, batch, producerVars>>

InitSeal ==
    /\ Init
    /\ Time(Genesis) = 60

NextSeal ==
    \/ \E v \in Validators : InsertHeader(v, MaxSealHeaders)
    \/ \E header \in SealHeaders, schedule \in Schedules :
          VerifySeal(header, schedule)

SpecSeal == InitSeal /\ [][NextSeal]_vars

\* ------------------------------------------------------------ the producer

\* Lines 583-589, for now >= 1.
PrevSlot(now) == ((now - 1) \div ProducerInterval) * ProducerInterval

NextSlot(now) ==
    ((now + ProducerInterval - 1) \div ProducerInterval) * ProducerInterval

\* CheckDeadline, lines 411-432.
CheckDeadline(lastBlockTime, now) ==
    IF lastBlockTime >= NextSlot(now) THEN "ErrMintFutureBlock"
    ELSE IF (now % EpochInterval) % ProducerInterval # 0
         THEN "ErrInvalidMintBlockTime"
    ELSE IF lastBlockTime = PrevSlot(now) \/ NextSlot(now) - now <= 1 THEN "nil"
    ELSE "ErrInvalidTimestamp"

\* CheckProducer, lines 435-449. schedule is what the last block's DposContext
\* gives for now: a producer, the zero address, or the error of
\* NewDposContextFromProto or of GetProducer. d.signer is read without d.mu.
CheckProducer(lastBlockTime, now, schedule) ==
    IF schedule \in {"ErrContext", "ErrProducer"} THEN schedule
    ELSE IF schedule = "zero" \/ schedule # signer THEN "ErrInvalidBlockProducer"
    ELSE "nil"

\* The times of the last block and of the wall clock the producer checks with.
LastBlockTimes == {90, 100}
MintTimes == {100, 105, 109}
ProducerSchedules == Schedules \cup {"zero"}

\* The producer asks whether the slot of now is open.
CallCheckDeadline(lastBlockTime, now) ==
    /\ seal.pc = "idle"
    /\ ~work.prepared
    /\ last' = [op |-> "CheckDeadline", err |-> CheckDeadline(lastBlockTime, now),
                lastBlockTime |-> lastBlockTime, now |-> now, schedule |-> "zero"]
    /\ UNCHANGED <<chainVars, engineVars, walks, batch, signatures, producerVars>>

\* The producer asks whether the slot of now is its own.
CallCheckProducer(lastBlockTime, now, schedule) ==
    /\ seal.pc = "idle"
    /\ ~work.prepared
    /\ last' = [op |-> "CheckProducer",
                err |-> CheckProducer(lastBlockTime, now, schedule),
                lastBlockTime |-> lastBlockTime, now |-> now, schedule |-> schedule]
    /\ UNCHANGED <<chainVars, engineVars, walks, batch, signatures, producerVars>>

\* The (address, signing function) pairs that callers of Authorize install.
Configs ==
    {[signer |-> "A", signFn |-> "fnA"], [signer |-> "B", signFn |-> "fnB"]}

\* Authorize, lines 548-549: d.mu is taken and d.signer is written.
AuthorizeSigner(c) ==
    /\ auth.pc = "idle"
    /\ auth' = [pc |-> "locked", signer |-> c.signer, signFn |-> c.signFn]
    /\ signer' = c.signer
    /\ UNCHANGED <<chainVars, engineVars, last, walks, batch, signatures,
                   signFn, work, seal, blockCntTrie>>

\* Authorize, lines 550-551: d.signFn is written and d.mu is released.
AuthorizeSignFn ==
    /\ auth.pc = "locked"
    /\ signFn' = auth.signFn
    /\ auth' = NoAuthorize
    /\ UNCHANGED <<chainVars, engineVars, last, walks, batch, signatures,
                   signer, work, seal, blockCntTrie>>

\* Lines 333-339 of Prepare: the extra is padded to the vanity, cut to it, and
\* given room for the seal.
prepareExtra(extraLen) ==
    LET padded == IF extraLen < ExtraVanity THEN ExtraVanity ELSE extraLen
        cut == IF padded > ExtraVanity THEN ExtraVanity ELSE padded
    IN cut + ExtraSeal

\* Prepare, lines 328-353, on a header of that number on top of the tip.
\* For number 0 the uint64 number - 1 is 2^64 - 1, the number of no stored
\* header. d.signer is read without d.mu.
Prepare(number, extraLen) ==
    /\ seal.pc = "idle"
    /\ ~work.prepared
    /\ LET parent == IF number = 0 THEN NilHeader ELSE GetHeader(tip, number - 1) IN
       work' = IF parent.hash = Nil
               THEN [prepared |-> FALSE, number |-> number,
                     extraLen |-> prepareExtra(extraLen),
                     validator |-> work.validator, err |-> "ErrUnknownAncestor"]
               ELSE [prepared |-> TRUE, number |-> number,
                     extraLen |-> prepareExtra(extraLen),
                     validator |-> signer, err |-> "nil"]
    /\ UNCHANGED <<chainVars, engineVars, last, walks, batch, signatures,
                   signer, signFn, auth, seal, blockCntTrie>>

\* The blocks handed to Seal: the prepared header, or a block of number 0.
SealBlocks ==
    {[number |-> 0, extraLen |-> ExtraVanity + ExtraSeal]}
        \cup IF work.prepared
             THEN {[number |-> work.number, extraLen |-> work.extraLen]}
             ELSE {}

\* Lines 504-513 of Seal: the number is tested and the delay to the next slot
\* is computed; stopped says whether the stop channel is closed already.
SealBegin(block, now, stopped) ==
    /\ seal.pc = "idle"
    /\ LET delay == NextSlot(now) - now
           s == [NoSeal EXCEPT !.number = block.number,
                               !.extraLen = block.extraLen,
                               !.stop = stopped,
                               !.stopAt = IF stopped THEN "before" ELSE "never"]
       IN seal' = IF block.number = 0
                  THEN [s EXCEPT !.pc = "done", !.err = "errUnknownBlock"]
                  ELSE [s EXCEPT !.delay = delay,
                                 !.pc = IF delay > 0 THEN "wait" ELSE "sign"]
    /\ UNCHANGED <<chainVars, engineVars, last, walks, batch, signatures,
                   signer, signFn, auth, work, blockCntTrie>>

\* The caller of Seal closes the stop channel.
StopSeal ==
    /\ seal.pc \in {"wait", "sign", "account"}
    /\ ~seal.stop
    /\ seal' = [seal EXCEPT !.stop = TRUE, !.stopAt = seal.pc]
    /\ UNCHANGED <<chainVars, engineVars, last, walks, batch, signatures,
                   signer, signFn, auth, work, blockCntTrie>>

\* The stop case without its return: Seal goes on to sign.
selectStopFallsThrough(s) == [s EXCEPT !.pc = "sign"]

\* Lines 515-516, the case <-stop: Seal returns nil, nil.
selectStop(s) == [s EXCEPT !.pc = "done", !.block = "nil", !.err = "nil"]

\* Seal waits in the select of lines 514-518 and the stop channel is closed.
SealStop ==
    /\ seal.pc = "wait"
    /\ seal.stop
    /\ seal' = selectStop(seal)
    /\ UNCHANGED <<chainVars, engineVars, last, walks, batch, signatures,
                   signer, signFn, auth, work, blockCntTrie>>

\* Line 517: the delay elapses while Seal waits, the stop channel still open.
SealTimer ==
    /\ seal.pc = "wait"
    /\ ~seal.stop
    /\ seal' = [seal EXCEPT !.pc = "sign"]
    /\ UNCHANGED <<chainVars, engineVars, last, walks, batch, signatures,
                   signer, signFn, auth, work, blockCntTrie>>

\* Line 523: Seal reads d.signFn, without d.mu.
SealReadSignFn ==
    /\ seal.pc = "sign"
    /\ seal' = [seal EXCEPT !.fn = signFn, !.pc = "account"]
    /\ UNCHANGED <<chainVars, engineVars, last, walks, batch, signatures,
                   signer, signFn, auth, work, blockCntTrie>>

\* Lines 523-528: Seal reads d.signer, without d.mu, hashes the header and
\* calls the signing function it read, which signs (ok) or fails. sigHash
\* panics on an extra shorter than the seal, the call of a nil function panics.
SealSign(ok) ==
    /\ seal.pc = "account"
    /\ seal' = IF seal.extraLen < ExtraSeal \/ seal.fn = "nil"
               THEN [seal EXCEPT !.account = signer, !.pc = "crashed",
                                 !.err = "panic"]
               ELSE IF ok
               THEN [seal EXCEPT !.account = signer, !.calls = @ + 1,
                                 !.signed = TRUE, !.block = "sealed",
                                 !.err = "nil", !.pc = "done"]
               ELSE [seal EXCEPT !.account = signer, !.calls = @ + 1,
                                 !.block = "nil", !.err = "errSign",
                                 !.pc = "done"]
    /\ UNCHANGED <<chainVars, engineVars, last, walks, batch, signatures,
                   signer, signFn, auth, work, blockCntTrie>>

InitProducer ==
    /\ Init
    /\ Time(Genesis) = 60

NextProducer ==
    \/ \E c \in Configs : AuthorizeSigner(c)
    \/ AuthorizeSignFn
    \/ \E lastBlockTime \in LastBlockTimes, now \in MintTimes :
          CallCheckDeadline(lastBlockTime, now)
    \/ \E lastBlockTime \in LastBlockTimes, now \in MintTimes,
          schedule \in ProducerSchedules :
          CallCheckProducer(lastBlockTime, now, schedule)
    \/ \E number \in {0, Number(tip) + 1}, extraLen \in {0, 40} :
          Prepare(number, extraLen)
    \/ \E block \in SealBlocks, now \in MintTimes, stopped \in BOOLEAN :
          SealBegin(block, now, stopped)
    \/ StopSeal
    \/ SealStop
    \/ SealTimer
    \/ SealReadSignFn
    \/ \E ok \in BOOLEAN : SealSign(ok)

SpecProducer == InitProducer /\ [][NextProducer]_vars

\* ------------------------------------------------------------- mint counts

\* binary.BigEndian.PutUint64 on n bytes: the bytes of x, the highest first.
RECURSIVE BigEndianBytes(_, _)
BigEndianBytes(x, n) ==
    IF n = 0 THEN <<>> ELSE Append(BigEndianBytes(x \div 256, n - 1), x % 256)

PutUint64(x) == BigEndianBytes(x, 8)

\* binary.BigEndian.Uint64: the number the bytes spell.
RECURSIVE BigEndianUint64(_)
BigEndianUint64(bytes) ==
    IF bytes = <<>> THEN 0
    ELSE 256 * BigEndianUint64(SubSeq(bytes, 1, Len(bytes) - 1)) + bytes[Len(bytes)]

\* bytes.Compare(a, b) >= 0.
RECURSIVE BytesNotBelow(_, _)
BytesNotBelow(a, b) ==
    IF b = <<>> THEN TRUE
    ELSE IF a = <<>> THEN FALSE
    ELSE IF a[1] # b[1] THEN a[1] > b[1]
    ELSE BytesNotBelow(Tail(a), Tail(b))

\* The trie key of a validator's count in an epoch: the 8 bytes of the epoch,
\* then the address. Only the epoch's bytes are compared as bytes.
MintKey(epochBytes, validator) == Append(epochBytes, validator)

\* Lines 604-607: an iterator that starts at the epoch's bytes has a leaf when
\* some key of the trie is not below them.
iterNext(trie, start) ==
    \E k \in DOMAIN trie : BytesNotBelow(SubSeq(k, 1, 8), start)

\* trie.TryUpdate(key, value), the value not empty.
TryUpdate(trie, key, value) ==
    [k \in DOMAIN trie \cup {key} |-> IF k = key THEN value ELSE trie[k]]

\* updateMintCnt that reads the old count whatever the epochs.
updateMintCntNoEpochTest(parentBlockTime, currentBlockTime, validator, trie) ==
    LET currentEpochBytes == PutUint64(parentBlockTime \div EpochInterval)
        key == MintKey(currentEpochBytes, validator)
        cnt == IF key \in DOMAIN trie THEN BigEndianUint64(trie[key]) + 1 ELSE 1
    IN TryUpdate(trie,
                 MintKey(PutUint64(currentBlockTime \div EpochInterval), validator),
                 PutUint64(cnt))

\* updateMintCnt, lines 592-621: the trie it leaves.
updateMintCnt(parentBlockTime, currentBlockTime, validator, trie) ==
    LET currentEpoch == parentBlockTime \div EpochInterval
        currentEpochBytes == PutUint64(currentEpoch)
        newEpoch == currentBlockTime \div EpochInterval
        key == MintKey(currentEpochBytes, validator)
        cnt == IF /\ currentEpoch = newEpoch
                  /\ iterNext(trie, currentEpochBytes)
                  /\ key \in DOMAIN trie
               THEN BigEndianUint64(trie[key]) + 1
               ELSE 1
    IN TryUpdate(trie, MintKey(PutUint64(newEpoch), validator), PutUint64(cnt))

\* Finalize, lines 376-408, of the block that validator v builds on the tip one
\* producer interval after it; the block is then inserted and becomes the tip.
\* A nil parent is dereferenced at line 405.
Finalize(v) ==
    /\ Len(headers) < MaxMintHeaders + 1
    /\ LET header == [number |-> Number(tip) + 1, parentHash |-> tip,
                      time |-> Time(tip) + ProducerInterval, validator |-> v]
           parent == GetHeaderByHash(header.parentHash)
       IN IF parent = Nil
          THEN /\ last' = [op |-> "Finalize", err |-> "panic",
                           parentTime |-> 0, time |-> header.time,
                           validator |-> v, trie |-> blockCntTrie]
               /\ UNCHANGED <<chainVars, blockCntTrie>>
          ELSE /\ blockCntTrie' = updateMintCnt(Time(parent), header.time, v,
                                                blockCntTrie)
               /\ headers' = Append(headers, header)
               /\ tip' = Len(headers) + 1
               /\ last' = [op |-> "Finalize", err |-> "nil",
                           parentTime |-> Time(parent), time |-> header.time,
                           validator |-> v, trie |-> blockCntTrie]
               /\ UNCHANGED missing
    /\ UNCHANGED <<engineVars, walks, batch, signatures, signer, signFn, auth,
                   work, seal>>

\* The tries a first block may be built on: up to MaxTrieKeys keys of the
\* epochs 0 and 1 with counts up to MaxCount.
MintKeys == {MintKey(PutUint64(e), v) : e \in 0..1, v \in Validators}

MintTries ==
    UNION {[K -> {PutUint64(c) : c \in 1..MaxCount}] :
              K \in {S \in SUBSET MintKeys : Cardinality(S) <= MaxTrieKeys}}

\* Blocks are finalized on any such trie.
InitMintCnt ==
    /\ InitEngine
    /\ Time(Genesis) \in {86360, 86370}
    /\ blockCntTrie \in MintTries

NextMintCnt == \E v \in Validators : Finalize(v)

SpecMintCnt == InitMintCnt /\ [][NextMintCnt]_vars

\* Blocks are finalized from the genesis block on, whose trie has no key.
InitMintChain ==
    /\ Init
    /\ Time(Genesis) \in {86360, 86370}

NextMintChain == \E v \in Validators : Finalize(v)

SpecMintChain == InitMintChain /\ [][NextMintChain]_vars

\* ------------------------------------------------------ the finality tracker

Tracked == last.op = "track"

\* The call promoted: it changed the confirmed header its walk started from.
Promoted == Tracked /\ confirmedBlockHeader # last.from

\* The headers of the tip's chain from the tip down to h that lie in h's epoch,
\* and their validators.
SameEpochAbove(h) ==
    {g \in ChainOf(tip) :
        Number(g) >= Number(h) /\ Epoch(Time(g)) = Epoch(Time(h))}

WitnessesOf(h) == {Validator(g) : g \in SameEpochAbove(h)}

\* The headers of the tip's chain above `from` that quorum-many distinct
\* validators of one epoch have signed or built on.
QuorumPoints(from) ==
    {h \in ChainOf(tip) :
        Number(h) > Number(from) /\ Cardinality(WitnessesOf(h)) >= ConsensusSize}

Highest(S) == CHOOSE h \in S : \A g \in S : Number(g) <= Number(h)

\* C1: monotonicity. After a call of the tracker that found the confirmed
\* header set, the confirmed header's number is at least what it was before.
C1_NumberNeverDecreases ==
    (Tracked /\ last.before # Nil)
        => Number(confirmedBlockHeader) >= Number(last.before)

\* A call moved a confirmed header that was set to a higher header.
C1_Witness ==
    /\ Tracked
    /\ last.before # Nil
    /\ Number(confirmedBlockHeader) > Number(last.before)

\* C2: no promotion without quorum. The header a call promotes is on the tip's
\* chain, and the headers from the tip down to it that lie in its epoch carry at
\* least ConsensusSize distinct validators.
C2_PromotionHasQuorum ==
    Promoted
        => /\ confirmedBlockHeader \in ChainOf(tip)
           /\ Cardinality(WitnessesOf(confirmedBlockHeader)) >= ConsensusSize

\* A promotion whose walk crossed an epoch boundary: the tip lies in a later
\* epoch than the promoted header.
C2_Witness ==
    /\ Promoted
    /\ Epoch(Time(tip)) # Epoch(Time(confirmedBlockHeader))

\* C3: the exact promotion point. With every header of the tip's chain
\* resolvable, a call leaves the confirmed header at the highest header above
\* the one its walk started from at which the distinct validators of that
\* header's epoch, counted from the tip down, reach ConsensusSize; with no such
\* header it leaves the confirmed header alone and returns no error.
C3_ExactPromotionPoint ==
    (Tracked /\ last.from # Nil /\ ChainOf(tip) \cap missing = {})
        => IF QuorumPoints(last.from) = {}
           THEN confirmedBlockHeader = last.from /\ last.err = "nil"
           ELSE confirmedBlockHeader = Highest(QuorumPoints(last.from))

\* The scenario: genesis confirmed, t=70 signed A, t=80 signed C, t=90 signed B,
\* t=100 (the tip) signed A, and the call has confirmed the header at t=80.
C3_Witness ==
    /\ Tracked
    /\ last.from = Genesis
    /\ Len(headers) = 5
    /\ tip = 5
    /\ [i \in 2..5 |-> Time(i)] = [i \in 2..5 |-> 50 + 10 * i]
    /\ [i \in 2..5 |-> Validator(i)] = (2 :> "A" @@ 3 :> "C" @@ 4 :> "B" @@ 5 :> "A")
    /\ Time(confirmedBlockHeader) = 80

\* C4: idempotence. A call that directly follows another call, the tip and the
\* store unchanged in between, changes neither the confirmed header nor the
\* persisted hash.
C4_SecondCallChangesNothing ==
    [][(Tracked /\ last'.op = "track")
          => /\ confirmedBlockHeader' = confirmedBlockHeader
             /\ persisted' = persisted]_vars

\* A second call was made right after a call that promoted, with headers left
\* above the promoted one.
C4_Witness ==
    /\ Tracked
    /\ last.prev = "promoted"
    /\ confirmedBlockHeader # tip

\* The confirmed pointer stays on one branch: the header a call leaves confirmed
\* is the header its walk started from or a descendant of it.
ConfirmedStaysOnBranch ==
    (Tracked /\ last.from # Nil)
        => IsAncestorOrEqual(last.from, confirmedBlockHeader)

\* C5: irreversibility. After every call of the tracker, whatever tip the chain
\* reader reports, the confirmed header is the tip or an ancestor of it, and it
\* is the previously confirmed header or a descendant of it: the confirmed
\* pointer is never moved onto a branch that does not contain the previously
\* confirmed header.
C5_ConfirmedIsIrreversible ==
    /\ (Tracked /\ confirmedBlockHeader # Nil)
           => IsAncestorOrEqual(confirmedBlockHeader, tip)
    /\ ConfirmedStaysOnBranch

\* C6: under concurrent calls no step of any thread lowers the number of the
\* confirmed header.
C6_ConcurrentNeverDecreases ==
    [][(confirmedBlockHeader # Nil /\ confirmedBlockHeader' # Nil)
          => Number(confirmedBlockHeader') >= Number(confirmedBlockHeader)]_vars

\* The goroutine of VerifyHeaders is over: it returned or the process died.
BatchOver == batch.pc \in {"done", "crashed"}

\* The outcome of validating headers[i] on its own: against headers[i-1] of the
\* batch, or against the chain store for the first.
OutcomeOf(i) ==
    verifyHeader(batch.headers[i],
                 IF i = 1 THEN <<>> ELSE <<batch.headers[i - 1]>>, Now)

\* C7: a batch that is never aborted ends with one result per header, the i-th
\* being the outcome of validating headers[i]; a failing header does not
\* suppress the results of the headers after it.
C7_OneResultPerHeaderInOrder ==
    (BatchOver /\ ~batch.abort)
        => /\ Len(batch.results) = Len(batch.headers)
           /\ \A i \in 1..Len(batch.headers) : batch.results[i] = OutcomeOf(i)

\* C8: after the abort channel is closed the goroutine sends at most the
\* result that was in flight, and never the result of a header whose validation
\* started after the abort.
C8_NoResultAfterAbort ==
    batch.abort
        => /\ Len(batch.results) <= batch.sentAtAbort + 1
           /\ \A i \in batch.lateStart : i > Len(batch.results)

\* The call of verifySeal got past the lookups of lines 202-225 and recovered
\* a signer from the header's seal.
SealVerified == last.op = "verifySeal"

SignerRecovered ==
    /\ SealVerified
    /\ sealPrecheck(last.header, last.schedule) = "nil"
    /\ last.header.extraLen >= ExtraSeal
    /\ last.header.seal \in Validators

\* C9: verifySeal of a non-genesis header succeeds only if the signer recovered
\* from the seal is the producer scheduled for the header's time and is the
\* header's declared validator; a signer that is not the scheduled producer
\* gives ErrInvalidBlockProducer, one that is the producer but not the declared
\* validator gives ErrMismatchSignerAndValidator, and in both cases the finality
\* tracker is not run and the confirmed header is unchanged.
C9_SealBindsSignerProducerValidator ==
    /\ (SealVerified /\ (last.err = "nil" \/ last.tracked))
           => /\ last.header.seal = last.schedule
              /\ last.header.seal = last.header.validator
    /\ (SignerRecovered /\ last.header.seal # last.schedule)
           => /\ last.err = "ErrInvalidBlockProducer"
              /\ ~last.tracked
              /\ confirmedBlockHeader = last.before
              /\ persisted = last.db
    /\ (SignerRecovered /\ last.header.seal = last.schedule
                        /\ last.header.seal # last.header.validator)
           => /\ last.err = "ErrMismatchSignerAndValidator"
              /\ ~last.tracked
              /\ confirmedBlockHeader = last.before
              /\ persisted = last.db

\* A header sealed by the scheduled producer but declaring another validator
\* was refused in a state where a run of the tracker would have promoted.
C9_Witness ==
    /\ SignerRecovered
    /\ last.header.seal = last.schedule
    /\ last.header.seal # last.header.validator
    /\ last.err = "ErrMismatchSignerAndValidator"
    /\ confirmedBlockHeader # Nil
    /\ updateConfirmedBlockHeader(confirmedBlockHeader, persisted, TRUE).confirmed
           # confirmedBlockHeader

\* C10: every validated header whose difficulty is not exactly 1, values
\* above 64 bits and negative values included, fails with errInvalidDifficulty.
C10_DifficultyExactlyOne ==
    \A i \in 1..Len(batch.results) :
        batch.headers[i].difficulty # BigOne
            => batch.results[i] = "errInvalidDifficulty"

\* C11: every header that verifyHeader accepts has a time that is a multiple of
\* the producer interval and at least its parent's time plus one producer
\* interval.
C11_AcceptedTimesAreSlotAligned ==
    \A i \in 1..Len(batch.results) :
        batch.results[i] = "nil"
            => /\ batch.headers[i].time % ProducerInterval = 0
               /\ batch.headers[i].time >=
                      parentOf(batch.headers[i], batchParents(batch.headers, i)).time
                          + ProducerInterval

\* The stop channel was closed before or while Seal waited for the next slot.
StoppedWhileWaiting == seal.delay > 0 /\ seal.stopAt \in {"before", "wait"}

\* C12: Seal on a non-genesis block, the engine's signing function installed.
\* When the stop channel is closed while Seal waits for the next slot, Seal
\* returns no block and no error, the signing function is never called and no
\* signature is written; otherwise the signing function is called exactly once,
\* and when it fails Seal returns its error and no sealed block.
C12_SealStopsOrSignsOnce ==
    /\ seal.calls <= 1
    /\ StoppedWhileWaiting => seal.calls = 0 /\ ~seal.signed
    /\ (seal.pc = "done" /\ seal.number # 0)
           => IF StoppedWhileWaiting
              THEN seal.block = "nil" /\ seal.err = "nil"
              ELSE /\ seal.calls = 1
                   /\ seal.err # "nil" => seal.block = "nil" /\ ~seal.signed
                   /\ seal.err = "nil" => seal.block = "sealed" /\ seal.signed

\* Seal returned after the stop channel was closed during its wait.
C12_Witness ==
    /\ seal.pc = "done"
    /\ seal.number # 0
    /\ seal.stopAt = "wait"
    /\ seal.block = "nil"
    /\ seal.err = "nil"
    /\ seal.calls = 0

\* The slot a time lies in.
SlotOf(t) == (t \div ProducerInterval) * ProducerInterval

\* C13: no double sealing in one slot. When the last block's time lies in the
\* slot of now, CheckProducer(lastBlock, now) fails.
C13_CheckProducerRefusesSealedSlot ==
    (last.op = "CheckProducer" /\ SlotOf(last.lastBlockTime) = SlotOf(last.now))
        => last.err # "nil"

\* A Seal call is outstanding.
SealOutstanding == seal.pc \in {"wait", "sign", "account"}

\* The signing function is called with the address installed together with it.
SealUsesOneConfiguration ==
    seal.calls > 0 => [signer |-> seal.account, signFn |-> seal.fn] \in Configs

\* C16: with Authorize running concurrently with Seal, every call of the
\* signing function made by Seal uses an address and a signing function that
\* one Authorize call installed together, and the signer configuration is not
\* changed while a Seal call is outstanding.
C16_SealUsesOneConfiguration ==
    [][/\ SealOutstanding => signer' = signer /\ signFn' = signFn
       /\ SealUsesOneConfiguration']_vars

\* A block was finalized: updateMintCnt ran on the trie last.trie.
Finalized == last.op = "Finalize" /\ last.err = "nil"

\* The key and the count the claim asks updateMintCnt to write.
ExpectedMintKey == MintKey(PutUint64(Epoch(last.time)), last.validator)

ExpectedMintCnt ==
    IF /\ Epoch(last.parentTime) = Epoch(last.time)
       /\ ExpectedMintKey \in DOMAIN last.trie
    THEN BigEndianUint64(last.trie[ExpectedMintKey]) + 1
    ELSE 1

\* C14: updateMintCnt writes, under the key of the new epoch and the validator,
\* the validator's count for that epoch plus 1 when the parent's epoch is the
\* new epoch (1 when there is no count) and 1 otherwise, and leaves every other
\* key of the trie unchanged.
C14_UpdateMintCntWritesOneKey ==
    Finalized
        => /\ DOMAIN blockCntTrie = DOMAIN last.trie \cup {ExpectedMintKey}
           /\ BigEndianUint64(blockCntTrie[ExpectedMintKey]) = ExpectedMintCnt
           /\ \A k \in DOMAIN last.trie \ {ExpectedMintKey} :
                 blockCntTrie[k] = last.trie[k]

\* A count of 2 was raised to 3 in a trie that also holds a key of another
\* epoch.
C14_Witness ==
    /\ Finalized
    /\ Epoch(last.parentTime) = Epoch(last.time)
    /\ ExpectedMintKey \in DOMAIN last.trie
    /\ BigEndianUint64(blockCntTrie[ExpectedMintKey]) = 3
    /\ \E k \in DOMAIN blockCntTrie : SubSeq(k, 1, 8) # PutUint64(Epoch(last.time))

\* The blocks of the tip's chain below the tip that its validator built in
\* the tip's epoch; the genesis block is built by no validator.
EarlierBlocksOfTipValidator ==
    {h \in ChainOf(tip) \ {tip, Genesis} :
        Validator(h) = Validator(tip) /\ Epoch(Time(h)) = Epoch(Time(tip))}

\* C15: after any sequence of finalizations from the genesis block on, every
\* key of the mint-count trie belongs to the epoch of the block finalized last,
\* and a validator's first block of an epoch leaves its count at 1.
C15_TrieHoldsCurrentEpochOnly ==
    Finalized
        => /\ \A k \in DOMAIN blockCntTrie :
                 SubSeq(k, 1, 8) = PutUint64(Epoch(Time(tip)))
           /\ EarlierBlocksOfTipValidator = {}
                 => BigEndianUint64(blockCntTrie[ExpectedMintKey]) = 1

\* The confirmed header a call of the tracker began its walk with: the header
\* lazy initialisation gave, or the unset pointer when it gave none.
WalkBegan == IF last.from # Nil THEN last.from ELSE last.before

\* C17: no partial mutation on failure. Whenever updateConfirmedBlockHeader
\* returns an error, from the walk or from persisting the promoted header, the
\* in-memory confirmed header is the header it was when the walk began.
C17_FailureLeavesConfirmedUnchanged ==
    (Tracked /\ last.err # "nil") => confirmedBlockHeader = WalkBegan

\* C18: lazy initialisation. A call of the tracker that finds the confirmed
\* header unset sets it to the header of the persisted hash when the load
\* succeeds, to the genesis header when the load fails (no hash stored, or the
\* hash resolves to no header), and returns the load error with the confirmed
\* header still unset when the genesis header is unavailable too; a call that
\* finds it set never reloads it.
C18_LazyInitialisation ==
    [][last'.op = "track"
          => IF confirmedBlockHeader # Nil
             THEN last'.from = confirmedBlockHeader
             ELSE IF persisted # Nil /\ GetHeaderByHash(persisted) # Nil
             THEN last'.from = persisted /\ confirmedBlockHeader' # Nil
             ELSE IF GetHeaderByHash(Genesis) # Nil
             THEN last'.from = Genesis /\ confirmedBlockHeader' # Nil
             ELSE /\ confirmedBlockHeader' = Nil
                  /\ last'.err = IF persisted = Nil THEN "ErrNotFound"
                                 ELSE "ErrNilBlockHeader"]_vars

\* After a restart a call loaded the persisted header, which is not the genesis
\* header, and began its walk there.
C18_Witness ==
    /\ Tracked
    /\ last.before = Nil
    /\ last.from # Nil
    /\ last.from # Genesis

\* The walk of the tracker with the fast-exit test removed: the confirmed
\* header it ends with.
RECURSIVE walkWithoutFastExit(_, _)
walkWithoutFastExit(confirmed, w) ==
    IF ~loopCondition(confirmed, w.curHeader) THEN confirmed
    ELSE LET w2 == addValidator(epochStep(w)) IN
         IF reachedConsensus(w2) THEN w2.curHeader
         ELSE walkWithoutFastExit(
                  confirmed,
                  [w2 EXCEPT !.curHeader = GetHeaderByHash(ParentHash(w2.curHeader))])

\* C19: the fast exit is sound. With every ancestor of the tip resolvable, the
\* confirmed header after a call of the tracker is the one the same walk gives
\* with the fast-exit test removed.
C19_FastExitIsSound ==
    (Tracked /\ last.from # Nil /\ ChainOf(tip) \cap missing = {})
        => confirmedBlockHeader = walkWithoutFastExit(last.from, newWalk(tip))

\* A call took the fast exit: at least ConsensusSize headers lie above the
\* confirmed header, all of one validator.
C19_Witness ==
    /\ Tracked
    /\ last.from # Nil
    /\ ChainOf(tip) \cap missing = {}
    /\ Number(tip) - Number(last.from) >= ConsensusSize
    /\ \A h \in ChainOf(tip) :
          Number(h) > Number(last.from) => Validator(h) = Validator(tip)
    /\ confirmedBlockHeader = last.from

\* The ConsensusSize highest headers of the tip's chain.
TopHeaders ==
    {h \in ChainOf(tip) : Number(h) > Number(tip) - ConsensusSize}

\* They are resolvable, lie in one epoch, carry ConsensusSize distinct
\* validators and all lie above the header the call began its walk with.
TopHeadersMakeQuorum ==
    /\ Tracked
    /\ last.from # Nil
    /\ Number(tip) - ConsensusSize + 1 > Number(last.from)
    /\ TopHeaders \cap missing = {}
    /\ \A h \in TopHeaders : Epoch(Time(h)) = Epoch(Time(tip))
    /\ Cardinality({Validator(h) : h \in TopHeaders}) = ConsensusSize

\* C20: bounded lag. When the ConsensusSize highest headers of the chain lie in
\* one epoch, are signed by ConsensusSize distinct validators and all lie above
\* the confirmed header, a call of the tracker on that tip ends with the
\* confirmed header at most ConsensusSize - 1 blocks below the tip.
C20_BoundedLag ==
    TopHeadersMakeQuorum
        => /\ confirmedBlockHeader # Nil
           /\ Number(confirmedBlockHeader) >= Number(tip) - ConsensusSize + 1

\* A call moved the confirmed header from more than ConsensusSize blocks below
\* the tip to ConsensusSize - 1 blocks below it.
C20_Witness ==
    /\ TopHeadersMakeQuorum
    /\ Number(tip) - Number(last.from) > ConsensusSize
    /\ Number(confirmedBlockHeader) = Number(tip) - ConsensusSize + 1

====
